---- MODULE Spec2Model ----
(***************************************************************************)
(* A model of slag's web server (src/app.py): the before-request hooks,    *)
(* the view functions and the login flow, together with the collaborators  *)
(* they call (store.TokenStore, slack_archive.SlackArchive), whose code is *)
(* not in src/ and is modelled from spec.md.                               *)
(*                                                                         *)
(* One step of Spec is one HTTP request served to completion.  The         *)
(* variables req, handler, resp, calls and writes describe the request     *)
(* served last: what arrived, which view function ran, what was answered,  *)
(* which collaborator calls the request made (in order) and which          *)
(* collections of the database it wrote.                                   *)
(***************************************************************************)
EXTENDS Integers, Sequences, FiniteSets, TLC

VARIABLES
    production,   \* WebServer.is_production() of this deployment
    tokens,       \* store.TokenStore: auth key -> [login, full_access]
    streams,      \* canonical Stream collection: stream id -> members
    archive,      \* slack_archive.LOCAL_ARCHIVE_FILE: name of the saved upload
    messages,     \* canonical Message collection: set of message records
    subtypes,     \* message subtypes seen by the imports so far
    batches,      \* ImportBatch audit trail, oldest first
    lock,         \* holder of the import guard, or NoWorker
    runs,         \* worker -> the import it is running, or Idle
    req,          \* the request served last
    handler,      \* the view function that served it, or "none"
    resp,         \* its response
    calls,        \* the collaborator calls it made, in order
    writes,       \* the database collections it wrote
    hops          \* length of the chain of 301 redirects being followed

importVars == <<archive, messages, subtypes, batches, lock, runs>>
vars == <<production, tokens, streams, archive, messages, subtypes, batches,
          lock, runs, req, handler, resp, calls, writes, hops>>

(***************************************************************************)
(* Bounds of the model.                                                    *)
(***************************************************************************)
MaxHops == 3
MaxBatches == 2
NumWorkers == 2

(***************************************************************************)
(* The Slack workspace the server is deployed for.                         *)
(***************************************************************************)
SLACK_TEAM_ID == "T1"

Logins == {"alice", "bob"}

\* The team the tokens below belong to other than SLACK_TEAM_ID.
OtherTeam == "T2"

\* OAuth access tokens Slack may hand out, with what auth.test says of each.
AccessTokens == {"xoxp-a", "xoxp-w"}

AuthTest(token) ==
    CASE token = "xoxp-a" -> [user |-> "alice", team_id |-> SLACK_TEAM_ID]
      [] OTHER -> [user |-> "walt", team_id |-> OtherTeam]

StreamIds == {"C1", "G1", "D1"}

\* A Stream's kind is immutable: it is a function of the id.
StreamKind(id) ==
    CASE id = "C1" -> "public"
      [] id = "G1" -> "private"
      [] OTHER -> "direct"

\* Memberships as Slack knows them (what LiveSync can discover).
SlackMembers(id) ==
    CASE id = "C1" -> {"bob"}
      [] id = "G1" -> {"alice"}
      [] OTHER -> {"alice", "bob"}

\* A stream id no collection holds, and the empty request argument.
NoStream == "X9"
StreamArgs == {"", "C1", "G1"}

(***************************************************************************)
(* store.TokenStore (not in src/): a dictionary keyed by the auth key,     *)
(* which is the encrypted access token.                                    *)
(***************************************************************************)
AuthKey(token) ==
    CASE token = "xoxp-a" -> "key-a"
      [] OTHER -> "key-w"

\* What a browser sends as the auth cookie: a key a login of the team
\* handed out, or none ("").
Cookies == {AuthKey(t) : t \in {u \in AccessTokens : AuthTest(u).team_id = SLACK_TEAM_ID}}
           \cup {""}

UserInfos == [login : Logins \cup {"walt"}, full_access : BOOLEAN]

is_known_user(enc_key) == enc_key \in DOMAIN tokens

upsert(token, user, full_access) ==
    [k \in DOMAIN tokens \cup {AuthKey(token)} |->
        IF k = AuthKey(token)
        THEN [login |-> user.user, full_access |-> full_access]
        ELSE tokens[k]]

delitem(enc_key) == [k \in DOMAIN tokens \ {enc_key} |-> tokens[k]]

(***************************************************************************)
(* slack_archive.SlackArchive access control (not in src/; spec.md 4.3).   *)
(***************************************************************************)
FilterNames == {"all", "my"}

resolve_filter(filter_name) ==
    IF filter_name \in FilterNames THEN filter_name ELSE "my"

\* filterStreams: the visible streams partitioned by kind, and the resolved
\* filter name.  "my" keeps the streams the user is a member of.
filter_streams(user, filter_name) ==
    LET name == resolve_filter(filter_name)
        mine(id) == name = "all" \/ user.login \in streams[id]
        public == {id \in DOMAIN streams : StreamKind(id) = "public" /\ mine(id)}
        private == {id \in DOMAIN streams :
                       /\ StreamKind(id) = "private"
                       /\ user.full_access
                       /\ user.login \in streams[id]}
        direct == {id \in DOMAIN streams :
                      /\ StreamKind(id) = "direct"
                      /\ user.full_access
                      /\ user.login \in streams[id]}
    IN  <<public, private, direct, name>>

\* hasStreamAccess: the decision for one stream.
has_stream_access(user, stream_id) ==
    IF stream_id \notin DOMAIN streams
    THEN FALSE
    ELSE CASE StreamKind(stream_id) = "public" -> TRUE
           [] OTHER -> user.full_access /\ user.login \in streams[stream_id]

(***************************************************************************)
(* The request served last.                                                *)
(***************************************************************************)
\* How a request reaches the application: request.is_secure and the
\* X-Forwarded-Proto header ("" when absent).  The server terminates TLS
\* itself (no header), or a proxy does and says which scheme the browser used.
Transports == {<<FALSE, "">>, <<TRUE, "">>, <<FALSE, "http">>, <<FALSE, "https">>}

\* The query arguments a view function reads: q, s, c, p and filter.
Args(q, s, c, p, f) == [q |-> q, s |-> s, c |-> c, p |-> p, filter |-> f]

NoArgs == Args("", "", "", "", "")

Request(path, cookie, secure, xfp) ==
    [path |-> path, cookie |-> cookie, is_secure |-> secure, xfp |-> xfp,
     args |-> NoArgs]

\* A collaborator call: the operation, the user it is made for, the stream
\* and context arguments, the stream ids handed over, and its outcome.
Call(op, u, s, c, ids, ok) ==
    [op |-> op, u |-> u, s |-> s, c |-> c, ids |-> ids, ok |-> ok]

Response(kind, location, cookie) ==
    [kind |-> kind, location |-> location, cookie |-> cookie]

\* flask.request.url as the application sees it: the scheme follows
\* wsgi.url_scheme, which is what request.is_secure reads.
request_url(r) ==
    [scheme |-> IF r.is_secure THEN "https" ELSE "http", path |-> r.path]

\* url.replace('http://', 'https://', 1)
replace_http(url) ==
    [url EXCEPT !.scheme = IF @ = "http" THEN "https" ELSE @]

NoUrl == [scheme |-> "", path |-> ""]

NoResponse == Response("none", NoUrl, "")

Local(path) == [scheme |-> "", path |-> path]

\* WebServer._redirect_page(url, msg): a page that sends the browser on.
redirect_page(url, msg) == Response(msg, Local(url), "")

\* WebServer._basic_page(title, html)
basic_page(title) == Response(title, NoUrl, "")

(***************************************************************************)
(* What a request does: the view function that ran, the response, the      *)
(* calls made, the collections written and the new token store and         *)
(* stream collection.                                                      *)
(***************************************************************************)
Eff(h, rsp, cs, ws) ==
    [handler |-> h, resp |-> rsp, calls |-> cs, writes |-> ws,
     tokens |-> tokens, streams |-> streams]

NoIds == {}

TokenRead(key) == Call("tokens.get", "", "", "", NoIds, key \in DOMAIN tokens)

(***************************************************************************)
(* The before-request hooks, in the order __init__ registers them.         *)
(***************************************************************************)
redirect_to_https(r) ==
    LET is_http == r.is_secure \/ r.xfp = "http"
    IN  IF is_http /\ production
        THEN Response("redirect301", replace_http(request_url(r)), "")
        ELSE NoResponse

\* The files of static_folder; no view function's route names one of them.
StaticFiles == {"/style.css"}

is_static_file(path) == path \in StaticFiles

check_auth_open(r) ==
    IF r.path \in {"/login", "/stat"} \/ is_static_file(r.path)
    THEN NoResponse
    ELSE IF is_known_user(r.cookie)
         THEN NoResponse
         ELSE redirect_page("/login", "Auth required")

check_auth(r) ==
    IF is_known_user(r.cookie)
    THEN NoResponse
    ELSE IF r.path \in {"/login"} \/ is_static_file(r.path)
         THEN NoResponse
         ELSE redirect_page("/login", "Auth required")

\* Flask runs the hooks in order and answers with the first response one
\* of them returns; the view function runs when none does.
before_request(r) ==
    LET first == redirect_to_https(r)
    IN  IF first # NoResponse THEN first ELSE check_auth(r)

HookCalls(r) ==
    IF redirect_to_https(r) # NoResponse
    THEN <<>>
    ELSE <<Call("tokens.is_known_user", "", "", "", NoIds, is_known_user(r.cookie))>>

\* A request a hook answered: no view function runs.
Hooked(r) == Eff("none", before_request(r), HookCalls(r), {})

\* An exception escaping a view function: Flask answers 500.
Crash(h, cs, ws) == Eff(h, Response("error500", NoUrl, ""), cs, ws)

(***************************************************************************)
(* The view functions.                                                     *)
(***************************************************************************)
index(r) ==
    LET known == Call("tokens.is_known_user", "", "", "", NoIds,
                      is_known_user(r.cookie))
    IN  IF is_known_user(r.cookie)
        THEN Eff("index", Response("redirect302", Local("/browse"), ""), <<known>>, {})
        ELSE Eff("index", redirect_page("/login", "Auth required"), <<known>>, {})

users(r) ==
    Eff("users", Response("users", NoUrl, ""),
        <<Call("users_list", "", "", "", NoIds, TRUE)>>, {})

stat(r) ==
    Eff("stat", basic_page("Statistics"),
        <<Call("stat", "", "", "", NoIds, TRUE)>>, {})

send_file(r) ==
    Eff("send_file",
        Response(IF is_static_file(r.path) THEN "file" ELSE "not_found", NoUrl, ""),
        <<>>, {})

logout(r) ==
    IF r.cookie \notin DOMAIN tokens
    THEN Crash("logout", <<TokenRead(r.cookie)>>, {})
    ELSE [Eff("logout", Response("Bye", [scheme |-> "https", path |-> "slack.com"],
                                 "deleted"),
              <<TokenRead(r.cookie),
                Call("tokens.del", tokens[r.cookie].login, "", "", NoIds, TRUE)>>,
              {"z_logouts"})
          EXCEPT !.tokens = delitem(r.cookie)]

\* int(flask.request.args.get('p', 0)): the page number, or no number.
PageArgs == {"0", "x"}

int_arg(p) ==
    CASE p = "" -> 0
      [] p = "0" -> 0
      [] p = "1" -> 1
      [] OTHER -> -1

report_access_denied(h, r, cs, ws) ==
    Eff(h, basic_page("Access denied"),
        cs \o <<TokenRead(r.cookie)>>, ws \cup {"z_access"})

\* streams[:-1] chained to a flat list of ids.
all_stream_ids_short(user) ==
    LET found == filter_streams(user, "all")
    IN  found[1] \cup found[2]

all_stream_ids(user) ==
    LET found == filter_streams(user, "all")
    IN  found[1] \cup found[2] \cup found[3]

\* search() from the access check on: the query is not empty.
search_query(r, a, user, cs, ws) ==
    LET access == Call("has_stream_access", user.login, a.s, "", NoIds,
                       has_stream_access(user, a.s))
        checked == IF a.s # "" THEN cs \o <<access>> ELSE cs
    IN  IF a.s # "" /\ ~has_stream_access(user, a.s)
        THEN report_access_denied("search", r, checked, ws)
        ELSE IF a.c # ""
        THEN Eff("search", Response("search_results", NoUrl, ""),
                 checked \o <<Call("find_messages_around", user.login, a.s, a.c,
                                   NoIds, TRUE)>>, ws)
        ELSE IF a.s # ""
        THEN Eff("search", Response("search_results", NoUrl, ""),
                 checked \o <<Call("find_messages_in_stream", user.login, a.s, "",
                                   NoIds, TRUE)>>, ws)
        ELSE Eff("search", Response("search_results", NoUrl, ""),
                 checked \o <<Call("filter_streams", user.login, "", "all", NoIds, TRUE),
                              Call("find_messages", user.login, "", "",
                                   all_stream_ids(user), TRUE)>>, ws)

search_unguarded(r, a) ==
    IF r.cookie \notin DOMAIN tokens
    THEN Crash("search", <<TokenRead(r.cookie)>>, {})
    ELSE IF int_arg(a.p) < 0
    THEN Crash("search", <<TokenRead(r.cookie)>>, {})
    ELSE search_query(r, a, tokens[r.cookie], <<TokenRead(r.cookie)>>, {"z_search"})

search(r, a) ==
    IF r.cookie \notin DOMAIN tokens
    THEN Crash("search", <<TokenRead(r.cookie)>>, {})
    ELSE IF int_arg(a.p) < 0
    THEN Crash("search", <<TokenRead(r.cookie)>>, {})
    ELSE IF a.q = ""
    THEN Eff("search", Response("search_empty", NoUrl, ""),
             <<TokenRead(r.cookie)>>, {"z_search"})
    ELSE search_query(r, a, tokens[r.cookie], <<TokenRead(r.cookie)>>, {"z_search"})

browse(r, a) ==
    IF r.cookie \notin DOMAIN tokens
    THEN Crash("browse", <<TokenRead(r.cookie)>>, {})
    ELSE IF int_arg(a.p) < 0
    THEN Crash("browse", <<TokenRead(r.cookie)>>, {})
    ELSE LET user == tokens[r.cookie]
             cs == <<TokenRead(r.cookie)>>
             access == Call("has_stream_access", user.login, a.s, "", NoIds,
                            has_stream_access(user, a.s))
         IN  IF a.s = ""
             THEN Eff("browse", Response("browse_list", NoUrl, ""),
                      cs \o <<Call("filter_streams", user.login, "",
                                   resolve_filter(a.filter), NoIds, TRUE)>>,
                      {"z_browse"})
             ELSE IF ~has_stream_access(user, a.s)
             THEN report_access_denied("browse", r, cs \o <<access>>, {"z_browse"})
             ELSE Eff("browse", Response("stream_page", NoUrl, ""),
                      cs \o <<access, Call("stream_messages", user.login, a.s, "",
                                           NoIds, TRUE)>>,
                      {"z_browse"})

(***************************************************************************)
(* Login: the OAuth code exchange, auth.test, the session and LiveSync.    *)
(***************************************************************************)
\* The scope lists of LOGIN_LINK and TOKEN_LINK, and a two-name grant.
LoginScope == <<"identify">>

PairScope == <<"identify", "channels:history">>

TokenScope == <<"identify", "files:read", "channels:read", "channels:history",
                "groups:history", "groups:read", "im:history", "im:read",
                "mpim:read", "mpim:history", "stars:read">>

Grants == {LoginScope, PairScope, TokenScope}

\* oauth['scope'] is the names joined by commas; this is its count(',').
count_commas(scope) == IF Len(scope) = 0 THEN 0 ELSE Len(scope) - 1

\* What Slacker.oauth.access answers: an Error, or a token with its scope.
OAuthError == [ok |-> FALSE, access_token |-> "", scope |-> <<>>]

OAuthAnswers ==
    {OAuthError} \cup
    {[ok |-> TRUE, access_token |-> t, scope |-> g] : t \in AccessTokens, g \in Grants}

\* The endpoints LiveSync reads, each of which may fail on its own.
Endpoints == {"listStreams", "listPinned"}

\* The idempotent, additive merge of discovered streams: a new stream is
\* added, a known one gains members and loses none.
merge_streams(found) ==
    [id \in DOMAIN streams \cup DOMAIN found |->
        (IF id \in DOMAIN streams THEN streams[id] ELSE {})
        \cup (IF id \in DOMAIN found THEN found[id] ELSE {})]

\* slack_archive.SlackArchive.streams_fetch (not in src/; spec.md 4.2): the
\* streams the credential's user can see are merged in, memberships by
\* union; a failing endpoint is reported and merges nothing.
streams_fetch(token, failed) ==
    LET user == AuthTest(token).user
        seen == {id \in StreamIds :
                    StreamKind(id) = "public" \/ user \in SlackMembers(id)}
    IN  IF "listStreams" \in failed
        THEN streams
        ELSE merge_streams([id \in seen |-> SlackMembers(id)])

SyncCall(token, failed) ==
    Call("streams_fetch", AuthTest(token).user, "", "", failed, failed = {})

SessionCalls(token, user) ==
    <<Call("tokens.upsert", user.user, "", "", NoIds, TRUE),
      Call("set_cookie", user.user, "", "", NoIds, TRUE)>>

login_success_propagating(token, api_user_info, identity_only, failed, cs) ==
    IF failed # {}
    THEN [Crash("login", cs \o <<Call("tokens.upsert", api_user_info.user, "", "",
                                      NoIds, TRUE),
                                 SyncCall(token, failed)>>,
                {"tokens", "z_logins"})
          EXCEPT !.tokens = upsert(token, api_user_info, ~identity_only)]
    ELSE [Eff("login", Response("redirect302", Local("/browse"), AuthKey(token)),
              cs \o SessionCalls(token, api_user_info) \o <<SyncCall(token, failed)>>,
              {"tokens", "z_logins", "streams"})
          EXCEPT !.tokens = upsert(token, api_user_info, ~identity_only),
                 !.streams = streams_fetch(token, failed)]

login_success(token, api_user_info, identity_only, failed, cs) ==
    [Eff("login", Response("redirect302", Local("/browse"), AuthKey(token)),
         cs \o SessionCalls(token, api_user_info) \o <<SyncCall(token, failed)>>,
         {"tokens", "z_logins"} \cup
             (IF "listStreams" \in failed THEN {} ELSE {"streams"}))
     EXCEPT !.tokens = upsert(token, api_user_info, ~identity_only),
            !.streams = streams_fetch(token, failed)]

\* Slacker(token).auth.test(): the user and, in s, the team it answers.
AuthTestCall(token, ok) ==
    Call("auth.test", AuthTest(token).user, AuthTest(token).team_id, "", NoIds, ok)

login_with_token_any_team(token, identity_only, auth_ok, failed, cs) ==
    IF ~auth_ok
    THEN Eff("login", basic_page("Auth error"),
             cs \o <<AuthTestCall(token, FALSE)>>, {"z_errors"})
    ELSE login_success(token, AuthTest(token), identity_only, failed,
                       cs \o <<AuthTestCall(token, TRUE)>>)

login_with_token(token, identity_only, auth_ok, failed, cs) ==
    IF ~auth_ok
    THEN Eff("login", basic_page("Auth error"),
             cs \o <<AuthTestCall(token, FALSE)>>, {"z_errors"})
    ELSE IF AuthTest(token).team_id # SLACK_TEAM_ID
    THEN Eff("login", basic_page("Wrong team"),
             cs \o <<AuthTestCall(token, TRUE)>>, {})
    ELSE login_success(token, AuthTest(token), identity_only, failed,
                       cs \o <<AuthTestCall(token, TRUE)>>)

login_oauth(oauth, auth_ok, failed, cs) ==
    IF ~oauth.ok
    THEN Eff("login", basic_page("OAuth error"),
             cs \o <<Call("oauth.access", "", "", "", NoIds, FALSE)>>, {"z_errors"})
    ELSE LET token == oauth.access_token
             identity_only == count_commas(oauth.scope) = 1
         IN  login_with_token(token, identity_only, auth_ok, failed,
                              cs \o <<Call("oauth.access", "", "", "",
                                           {oauth.scope[i] : i \in DOMAIN oauth.scope},
                                           TRUE)>>)

login(code, oauth, auth_ok, failed) ==
    IF code # ""
    THEN login_oauth(oauth, auth_ok, failed, <<>>)
    ELSE Eff("login", basic_page("Login"), <<>>, {})

(***************************************************************************)
(* Requests.                                                               *)
(***************************************************************************)
\* The browser follows a 301 by asking for its Location: over TLS when the
\* server terminates TLS itself, with X-Forwarded-Proto when a proxy does.
Follows(r) ==
    /\ resp.kind = "redirect301"
    /\ hops < MaxHops
    /\ r.path = resp.location.path
    /\ r.cookie = req.cookie
    /\ \/ r.is_secure = (resp.location.scheme = "https") /\ r.xfp = ""
       \/ ~r.is_secure /\ r.xfp = resp.location.scheme

ArrivalsVia(path, transports) ==
    {a \in [r : {Request(path, k, tr[1], tr[2]) : k \in Cookies, tr \in transports},
            follow : BOOLEAN] : a.follow => Follows(a.r)}

Arrivals(path) == ArrivalsVia(path, Transports)

\* Serve request a.r with query arguments args; view is what its view
\* function does when no hook answers first.
Serve(a, args, view) ==
    LET hooked == before_request(a.r) # NoResponse
        eff == IF hooked THEN Hooked(a.r) ELSE view
        cs == IF hooked THEN eff.calls ELSE HookCalls(a.r) \o eff.calls
    IN  /\ req' = [a.r EXCEPT !.args = IF hooked THEN NoArgs ELSE args]
        /\ handler' = eff.handler
        /\ resp' = eff.resp
        /\ calls' = cs
        /\ writes' = eff.writes
        /\ tokens' = eff.tokens
        /\ streams' = eff.streams
        /\ hops' = IF eff.resp.kind = "redirect301"
                   THEN (IF a.follow THEN hops + 1 ELSE 1)
                   ELSE 0
        /\ UNCHANGED production

\* A request a hook answers, whatever its arguments.
Stopped(a) ==
    /\ before_request(a.r) # NoResponse
    /\ Serve(a, NoArgs, Hooked(a.r))
    /\ UNCHANGED importVars

\* A request no hook answers: view is what its view function does.
Passed(a, args, view) ==
    /\ before_request(a.r) = NoResponse
    /\ Serve(a, args, view)
    /\ UNCHANGED importVars

Index == \E a \in Arrivals("/") : Stopped(a) \/ Passed(a, NoArgs, index(a.r))

Users == \E a \in Arrivals("/users") : Stopped(a) \/ Passed(a, NoArgs, users(a.r))

Stat == \E a \in Arrivals("/stat") : Stopped(a) \/ Passed(a, NoArgs, stat(a.r))

SendFile ==
    \E path \in StaticFiles \cup {"/missing.png"} : \E a \in Arrivals(path) :
        Stopped(a) \/ Passed(a, NoArgs, send_file(a.r))

\* The outcomes of the calls a login makes to Slack: the code exchange,
\* auth.test and the endpoints LiveSync reads.  A call that is not made
\* has no outcome to choose.
SlackAnswers ==
    {o \in [oauth : OAuthAnswers, auth_ok : BOOLEAN, failed : SUBSET Endpoints] :
        /\ ~o.oauth.ok => o.auth_ok
        /\ ~(/\ o.oauth.ok
             /\ o.auth_ok
             /\ AuthTest(o.oauth.access_token).team_id = SLACK_TEAM_ID)
               => o.failed = {}}

Login ==
    \E a \in Arrivals("/login") :
        \/ Stopped(a)
        \/ Passed(a, NoArgs, login("", OAuthError, TRUE, {}))
        \/ \E o \in SlackAnswers :
               Passed(a, NoArgs, login("code", o.oauth, o.auth_ok, o.failed))

Logout == \E a \in Arrivals("/logout") : Stopped(a) \/ Passed(a, NoArgs, logout(a.r))

Queries == {"", "deploy"}
Contexts == {"", "m1"}

Search ==
    \E a \in Arrivals("/search") :
        \/ Stopped(a)
        \/ \E q \in Queries, s \in StreamArgs, c \in Contexts, p \in PageArgs :
               Passed(a, Args(q, s, c, p, ""), search(a.r, Args(q, s, c, p, "")))

Browse ==
    \E a \in Arrivals("/browse") :
        \/ Stopped(a)
        \/ \E s \in StreamArgs, p \in PageArgs, f \in {"", "all"} :
               Passed(a, Args("", s, "", p, f), browse(a.r, Args("", s, "", p, f)))

(***************************************************************************)
(* The offline import: /import saves an uploaded archive, /import_db runs  *)
(* slack_archive.SlackArchive.import_archive on it (not in src/; spec.md   *)
(* 4.1 and 5).  gunicorn serves with several workers, so an import runs    *)
(* while other requests, other imports and uploads among them, arrive.     *)
(***************************************************************************)
Workers == 1..NumWorkers

NoWorker == 0

\* What an upload may carry: no file, or a file of one of these names.
UploadNames == {"", "a.zip", "b.zip", "notes.txt"}

\* archive.filename.endswith('.zip')
endswith_zip(filename) == filename \in {"a.zip", "b.zip"}

Record(stream, ts, subtype, ok) ==
    [stream |-> stream, ts |-> ts, subtype |-> subtype, ok |-> ok]

\* The message records of an archive, in the order the import reads them;
\* a record with ok = FALSE cannot be parsed.
ArchiveRecords(name) ==
    CASE name = "a.zip" -> <<Record("C1", 1, "message", TRUE),
                             Record("C1", 1, "bot_message", TRUE),
                             Record("C1", 2, "", FALSE)>>
      [] name = "b.zip" -> <<Record("C1", 1, "channel_join", TRUE),
                             Record("G1", 1, "message", TRUE)>>
      [] OTHER -> <<>>

\* The channel, group and DM lists of an archive.
ArchiveStreams(name) ==
    CASE name = "a.zip" -> [id \in {"C1"} |-> {"bob"}]
      [] name = "b.zip" -> [id \in {"C1", "G1"} |-> {"alice"}]
      [] OTHER -> [id \in {} |-> {}]

Message(rec) == [stream |-> rec.stream, ts |-> rec.ts, subtype |-> rec.subtype]

\* The composite key of a Message.
MsgKey(m) == <<m.stream, m.ts>>

has_key(msgs, m) == \E old \in msgs : MsgKey(old) = MsgKey(m)

upsert_message_blind(msgs, m) == msgs \cup {m}

\* Idempotent upsert: insert when the key is absent, else a no-op.
upsert_message(msgs, m) == IF has_key(msgs, m) THEN msgs ELSE msgs \cup {m}

ImportState(msgs) ==
    [messages |-> msgs, inserted |-> 0, skipped |-> 0, malformed |-> 0, new |-> {}]

\* One record of the archive: a malformed one is counted and skipped, a
\* known key is counted as skipped, a new key is inserted.
import_record(st, rec) ==
    IF ~rec.ok
    THEN [st EXCEPT !.malformed = @ + 1]
    ELSE LET m == Message(rec)
             known == has_key(st.messages, m)
         IN  [st EXCEPT !.messages = upsert_message(@, m),
                        !.inserted = IF known THEN @ ELSE @ + 1,
                        !.skipped = IF known THEN @ + 1 ELSE @,
                        !.new = IF rec.subtype \in subtypes THEN @
                                ELSE @ \cup {rec.subtype}]

RECURSIVE import_records(_, _)
import_records(st, recs) ==
    IF recs = <<>>
    THEN st
    ELSE import_records(import_record(st, Head(recs)), Tail(recs))

\* The ImportBatch of a run: clean when the run read one archive from
\* beginning to end, grew when the run changed the Message collection.
Batch(source, st, clean) ==
    [source |-> source, inserted |-> st.inserted, skipped |-> st.skipped,
     malformed |-> st.malformed, new |-> st.new, clean |-> clean,
     grew |-> st.messages # messages]

\* The import guard (spec.md 4.1: single-flight, held for the whole run).
guard_ignored == TRUE

guard_free == lock = NoWorker

Idle == [pc |-> "idle", source |-> "", torn |-> FALSE]

\* import_db answers: req stays the request that arrived last.
Answer(rsp, cs, ws) ==
    /\ handler' = "import_db"
    /\ resp' = rsp
    /\ calls' = cs
    /\ writes' = ws
    /\ UNCHANGED <<production, tokens, req, hops>>

\* The imports are followed for requests arriving over plain HTTP.
ImportTransports == {<<FALSE, "">>}

\* POST or GET /import, served by an idle worker.
Upload ==
    /\ {w \in Workers : runs[w].pc = "idle"} # {}
    /\ \E a \in ArrivalsVia("/import", ImportTransports) :
        IF before_request(a.r) # NoResponse
        THEN Serve(a, NoArgs, Hooked(a.r)) /\ UNCHANGED importVars
        ELSE IF production
        THEN /\ Serve(a, NoArgs,
                      Eff("upload", redirect_page("/browse", "Access denied"), <<>>, {}))
             /\ UNCHANGED importVars
        ELSE \E filename \in UploadNames :
            IF filename # "" /\ endswith_zip(filename)
            THEN /\ Serve(a, NoArgs,
                          Eff("upload", redirect_page("/import_db", "saved"), <<>>, {}))
                 /\ archive' = filename
                 \* the file is rewritten under an import that is reading it
                 /\ runs' = [w \in Workers |->
                                IF runs[w].pc = "importing"
                                THEN [runs[w] EXCEPT !.torn = TRUE]
                                ELSE runs[w]]
                 /\ UNCHANGED <<messages, subtypes, batches, lock>>
            ELSE /\ Serve(a, NoArgs,
                          Eff("upload", basic_page("Archive upload"), <<>>, {}))
                 /\ UNCHANGED importVars

\* GET /import_db served by worker w, up to where import_archive holds the
\* guard and has opened the saved archive: the hooks, the production check,
\* and the call of import_archive, which waits for the guard to be free.
ImportDb(w) ==
    /\ runs[w].pc = "idle"
    /\ \E a \in ArrivalsVia("/import_db", ImportTransports) :
        IF before_request(a.r) # NoResponse
        THEN Serve(a, NoArgs, Hooked(a.r)) /\ UNCHANGED importVars
        ELSE IF production
        THEN /\ Serve(a, NoArgs,
                      Eff("import_db", redirect_page("/browse", "Access denied"), <<>>, {}))
             /\ UNCHANGED importVars
        ELSE /\ guard_free
             /\ Len(batches) < MaxBatches
             /\ lock' = w
             /\ runs' = [runs EXCEPT ![w].pc = "importing", ![w].source = archive]
             /\ req' = a.r
             /\ handler' = "import_db"
             /\ resp' = NoResponse
             /\ calls' = HookCalls(a.r)
             /\ writes' = {}
             /\ hops' = 0
             /\ UNCHANGED <<production, tokens, streams, archive, messages,
                            subtypes, batches>>

\* The run fails: the archive cannot be read (none was saved, or it was
\* rewritten while being read).  What was upserted of it so far stays.
ImportFail(w) ==
    /\ runs[w].pc = "importing"
    /\ runs[w].source = "" \/ runs[w].torn
    /\ \E n \in 0..Len(ArchiveRecords(runs[w].source)) :
        LET st == import_records(ImportState(messages),
                                 SubSeq(ArchiveRecords(runs[w].source), 1, n))
        IN  /\ n > 0 => runs[w].torn
            /\ messages' = st.messages
            /\ Answer(Response("error500", NoUrl, ""),
                      <<Call("import_archive", "", "", "", NoIds, FALSE)>>,
                      IF st.inserted > 0 THEN {"messages"} ELSE {})
    /\ lock' = NoWorker
    /\ runs' = [runs EXCEPT ![w] = Idle]
    /\ UNCHANGED <<streams, archive, subtypes, batches>>

\* The run completes: every record is upserted, the streams of the archive
\* are merged, the ImportBatch is appended and the guard released.  A run
\* whose archive was rewritten meanwhile may have read a part of the old
\* file before the new one.
ImportFinish(w) ==
    /\ runs[w].pc = "importing"
    /\ runs[w].source # ""
    /\ \E n \in 0..Len(ArchiveRecords(runs[w].source)) :
        LET old == ArchiveRecords(runs[w].source)
            read == IF runs[w].torn
                    THEN SubSeq(old, 1, n) \o ArchiveRecords(archive)
                    ELSE old
            source == IF runs[w].torn THEN archive ELSE runs[w].source
            st == import_records(ImportState(messages), read)
        IN  /\ ~runs[w].torn => n = Len(old)
            /\ messages' = st.messages
            /\ subtypes' = subtypes \cup st.new
            /\ streams' = merge_streams(ArchiveStreams(source))
            /\ batches' = Append(batches, Batch(source, st, ~runs[w].torn))
            /\ Answer(basic_page("Archive import complete"),
                      <<Call("import_archive", "", "", "", st.new, TRUE)>>,
                      {"streams", "batches"} \cup
                          (IF st.inserted > 0 THEN {"messages"} ELSE {}))
    /\ lock' = NoWorker
    /\ runs' = [runs EXCEPT ![w] = Idle]
    /\ UNCHANGED archive

\* The state SpecImport starts in: a user is logged in, nothing imported.
InitImport ==
    /\ production \in BOOLEAN
    /\ tokens = [k \in {"key-a"} |-> [login |-> "alice", full_access |-> TRUE]]
    /\ streams = [id \in {"C1"} |-> {}]
    /\ archive = ""
    /\ messages = {}
    /\ subtypes = {}
    /\ batches = <<>>
    /\ lock = NoWorker
    /\ runs = [w \in Workers |-> Idle]
    /\ req = Request("", "", FALSE, "")
    /\ handler = "none"
    /\ resp = NoResponse
    /\ calls = <<>>
    /\ writes = {}
    /\ hops = 0

NextImport ==
    \/ Upload
    \/ \E w \in Workers : ImportDb(w)
    \/ \E w \in Workers : ImportFail(w)
    \/ \E w \in Workers : ImportFinish(w)

SpecImport == InitImport /\ [][NextImport]_vars


(***************************************************************************)
(* The web server serving one request at a time.                           *)
(***************************************************************************)
EmptyStore == [k \in {} |-> [login |-> "", full_access |-> FALSE]]

Init ==
    /\ production \in BOOLEAN
    /\ tokens = EmptyStore
    /\ streams = [id \in {"C1"} |-> {}]
    /\ archive = ""
    /\ messages = {}
    /\ subtypes = {}
    /\ batches = <<>>
    /\ lock = NoWorker
    /\ runs = [w \in Workers |-> Idle]
    /\ req = Request("", "", FALSE, "")
    /\ handler = "none"
    /\ resp = NoResponse
    /\ calls = <<>>
    /\ writes = {}
    /\ hops = 0

Next ==
    \/ Index
    \/ Users
    \/ Stat
    \/ SendFile
    \/ Login
    \/ Logout
    \/ Search
    \/ Browse

Spec == Init /\ [][Next]_vars

(***************************************************************************)
(* The claims.                                                             *)
(***************************************************************************)
ReadOps == {"find_messages_around", "find_messages_in_stream", "stream_messages"}

SessionOps == {"tokens.upsert", "set_cookie", "streams_fetch"}

\* The scopes that let a token read content; "identify" is the other one.
ContentScopes == {TokenScope[i] : i \in DOMAIN TokenScope} \ {"identify"}

PartitionAll(u) ==
    filter_streams(u, "all")[1] \cup filter_streams(u, "all")[2]
        \cup filter_streams(u, "all")[3]

\* C1: every find_messages_around, find_messages_in_stream and
\* stream_messages call of a request comes after a has_stream_access call of
\* the same request, for the same user and stream, that returned true; and
\* find_messages gets the stream ids of filter_streams(user, 'all').
C1_EveryReadPreAuthorized ==
    \A i \in DOMAIN calls :
        /\ calls[i].op \in ReadOps =>
              \E j \in 1..(i - 1) :
                  /\ calls[j].op = "has_stream_access"
                  /\ calls[j].u = calls[i].u
                  /\ calls[j].s = calls[i].s
                  /\ calls[j].ok
        /\ calls[i].op = "find_messages" =>
              /\ \E j \in 1..(i - 1) :
                     calls[j].op = "filter_streams" /\ calls[j].c = "all"
              /\ calls[i].ids = PartitionAll(tokens[req.cookie])

\* C2: for every user and stream id, has_stream_access is true exactly when
\* the id is in a partition of filter_streams(user, 'all'); so the global
\* search reads exactly the streams the per-stream search and browse admit.
C2_AccessConsistent ==
    /\ \A u \in UserInfos : \A s \in StreamIds \cup {NoStream, ""} :
           has_stream_access(u, s) <=> s \in PartitionAll(u)
    /\ \A i \in DOMAIN calls :
           /\ calls[i].op = "find_messages" =>
                 calls[i].ids = {s \in StreamIds \cup {NoStream, ""} :
                                    has_stream_access(tokens[req.cookie], s)}
           /\ calls[i].op \in {"find_messages_in_stream", "stream_messages"} =>
                 has_stream_access(tokens[req.cookie], calls[i].s)

\* C2's case: a global search that reads a private stream, while some user
\* is denied a stream the store holds.
C2_Witness ==
    /\ \E i \in DOMAIN calls : calls[i].op = "find_messages" /\ "G1" \in calls[i].ids
    /\ \E u \in UserInfos : \E s \in DOMAIN streams : ~has_stream_access(u, s)

\* C3: an import of an archive that an earlier run has imported, read from
\* beginning to end, inserts no message, reports no new subtype and leaves
\* the Message collection as it was; and the collection never holds two
\* messages of one (stream id, send timestamp) key.
C3_ImportIdempotent ==
    /\ \A j \in DOMAIN batches : \A i \in 1..(j - 1) :
           batches[i].source = batches[j].source /\ batches[j].clean =>
               /\ batches[j].inserted = 0
               /\ batches[j].new = {}
               /\ ~batches[j].grew
    /\ \A m1 \in messages : \A m2 \in messages :
           MsgKey(m1) = MsgKey(m2) => m1 = m2

\* C3's case: the same archive imported twice in a row, the second run
\* skipping the messages the first one inserted.
C3_Witness ==
    /\ Len(batches) >= 2
    /\ batches[1].source = batches[2].source
    /\ batches[1].clean /\ batches[2].clean
    /\ batches[1].inserted > 0
    /\ batches[2].skipped > 0

\* C4 as stated: a search with an empty query returns the empty result set
\* and neither reads nor writes any collection.
C4_EmptyQueryTouchesNothing ==
    handler = "search" /\ req.args.q = "" =>
        /\ resp.kind = "search_empty"
        /\ writes = {}
        /\ \A i \in DOMAIN calls : calls[i].op = "tokens.is_known_user"

EmptyQueryAnswer ==
    handler = "search" /\ req.args.q = "" /\ int_arg(req.args.p) >= 0 =>
        /\ resp.kind = "search_empty"
        /\ writes = {"z_search"}
        /\ \A i \in DOMAIN calls : calls[i].op \in {"tokens.is_known_user", "tokens.get"}

\* C4 as amended: a search with an empty query and a page argument that is
\* a number returns the empty result set without any call to the archive
\* and leaves the sessions and the canonical collections as they were; it
\* reads the session from the token store and writes the one audit record
\* every search writes, to z_search.
C4_EmptyQueryTouchesOnlyAudit ==
    /\ []EmptyQueryAnswer
    /\ [][handler' = "search" /\ req'.args.q = "" =>
             /\ tokens' = tokens
             /\ streams' = streams
             /\ messages' = messages]_vars

\* C4's case: an empty query that names a stream and a context.
C4_Witness ==
    /\ handler = "search"
    /\ req.args.q = "" /\ req.args.s # "" /\ req.args.c # ""
    /\ resp.kind = "search_empty"

\* C5: at most one import_archive run is in progress at any time, and the
\* run in progress holds the guard.
C5_SingleFlight ==
    /\ Cardinality({w \in Workers : runs[w].pc = "importing"}) <= 1
    /\ \A w \in Workers : runs[w].pc = "importing" => lock = w

\* C5's case: after one import has finished, another is in progress while
\* an upload has rewritten the archive under it.
C5_Witness ==
    /\ Len(batches) >= 1
    /\ \E w \in Workers : runs[w].pc = "importing" /\ runs[w].torn

\* C6: a session is stored with full_access only if the grant of its login
\* holds a content-reading scope.
C6_ScopeReflectsGrant ==
    \A i \in DOMAIN calls :
        calls[i].op = "oauth.access" /\ calls[i].ok /\ resp.cookie \in DOMAIN tokens =>
            (tokens[resp.cookie].full_access => calls[i].ids \cap ContentScopes # {})

\* C7: once auth.test has succeeded for the configured team, the login is
\* answered with the redirect to /browse carrying the auth cookie of the
\* stored session, whatever streams_fetch reports.
C7_SyncFailureNotUserFacing ==
    \A i \in DOMAIN calls :
        calls[i].op = "auth.test" /\ calls[i].ok /\ calls[i].s = SLACK_TEAM_ID =>
            /\ resp.kind = "redirect302"
            /\ resp.location = Local("/browse")
            /\ resp.cookie \in DOMAIN tokens
            /\ calls[Len(calls)].op = "streams_fetch"

\* C7's case: a login whose LiveSync failed on every endpoint.
C7_Witness ==
    /\ handler = "login"
    /\ resp.kind = "redirect302"
    /\ \E i \in DOMAIN calls :
           calls[i].op = "streams_fetch" /\ ~calls[i].ok /\ calls[i].ids = Endpoints

LoginErrors == {"OAuth error", "Auth error", "Wrong team"}

SessionAfterAuth ==
    /\ \A i \in DOMAIN calls :
           calls[i].op \in SessionOps =>
               \E j \in 1..(i - 1) : \E k \in (j + 1)..(i - 1) :
                   /\ calls[j].op = "oauth.access" /\ calls[j].ok
                   /\ calls[k].op = "auth.test" /\ calls[k].ok
                   /\ calls[k].s = SLACK_TEAM_ID
    /\ \A i \in DOMAIN calls : \A j \in DOMAIN calls :
           calls[i].op = "tokens.upsert" /\ calls[j].op = "streams_fetch" => i < j
    /\ handler = "login" /\ resp.kind \in LoginErrors =>
           /\ resp.cookie = ""
           /\ "tokens" \notin writes
           /\ \A i \in DOMAIN calls : calls[i].op \notin SessionOps

\* C8: the session, the cookie and the sync come only after a successful
\* code exchange and then a successful auth.test for the configured team,
\* the session before the sync; a login answered with an error has stored
\* no session, set no cookie and started no sync.
C8_SessionOnlyAfterAuth ==
    /\ []SessionAfterAuth
    /\ [][handler' = "login" /\ resp'.kind \in LoginErrors =>
             tokens' = tokens /\ streams' = streams]_vars

\* C8's case: a login that stored a session and synced.
C8_Witness ==
    /\ handler = "login"
    /\ resp.cookie \in DOMAIN tokens
    /\ \E i \in DOMAIN calls : calls[i].op = "streams_fetch"

GatedHandlers == {"index", "users", "stat", "logout", "search", "browse"}

C10_HttpsRedirectTerminates ==
    /\ resp.kind = "redirect301" =>
           production /\ ~(req.is_secure /\ req.xfp # "http")
    /\ hops <= 1

====
